---- MODULE Spec2Model ----
(***************************************************************************)
(* State-machine model of yumipy/yumi_planner.py: the client-side motion   *)
(* planner YuMiMotionPlanner (one planner instance, the MoveIt planning    *)
(* group and planning scene it talks to, and the callers that invoke it).  *)
(*                                                                         *)
(* The file is Python 2 (zip(...).sort() at lines 230 and 304, implicit    *)
(* relative imports at lines 18-20), and `class YuMiMotionPlanner:` at     *)
(* line 22 has no base class: it is a classic class.  On an instance of a  *)
(* classic class a property's getter runs on attribute reads, but an       *)
(* attribute ASSIGNMENT never calls the property's setter: it stores the   *)
(* value in the instance __dict__, which then shadows the property on      *)
(* later reads.  NewStyleClass records that fact; SetAttr and GetAttr      *)
(* implement both behaviours.                                              *)
(*                                                                         *)
(* Values: tolerances, planning times, planner names and callers are       *)
(* strings; joint names are the joint numbers 1..NumJoints (the names      *)
(* 'yumi_joint_<k>_<arm>' sort in the order of k); joint positions are     *)
(* integers counting units of pi/12 radian; a completion fraction is an    *)
(* integer counting units of 1/FracDen.                                    *)
(*                                                                         *)
(* The planning methods are split at their calls to the planning group,    *)
(* where calls of two callers can interleave.  `event` records the step    *)
(* just taken and `chosen` the values the caller configured last; neither  *)
(* is read by any action.  Left out: the arm name and the joint names of   *)
(* the start-state message, and the pose arithmetic (tool offsets, the     *)
(* interpolated waypoints), which no property below reads.                 *)
(***************************************************************************)
EXTENDS Integers, Sequences, FiniteSets, TLC

VARIABLES self, svc, scene, pc, loc, event, chosen

vars == <<self, svc, scene, pc, loc, event, chosen>>

(* ------------------------------ bounds --------------------------------- *)

\* joints per arm in a service response (7 on the robot)
NumJoints == 2

\* most points in a joint trajectory the service returns
MaxPoints == 2

\* a completion fraction f stands for f / FracDen; FracDen stands for 1.0
FracDen == 2

(* ------------------------- program constants --------------------------- *)

\* `while count < 5` (line 289)
MaxRetries == 5

\* line 22: `class YuMiMotionPlanner:` is a classic class under Python 2
NewStyleClass == FALSE

\* ymc.MOVEIT_PLANNER_IDS (yumi_constants, imported at line 20)
MOVEIT_PLANNER_IDS == [p \in {"RRTConnect", "RRTstar"} |-> IF p = "RRTConnect" THEN "RRTConnectkConfigDefault" ELSE "RRTstarkConfigDefault"]

\* the boxes _update_collision_object registers (lines 49-118)
SceneObjects == {"table", "camera_shelf", "left_support", "right_support", "camera", "barcode_detector", "screen_and_box"}

(* ------------------------------ inputs --------------------------------- *)

Callers == {"A", "B"}

MainCaller == "A"

Tolerances == {"0.001", "0.01"}

Times == {"0.1", "1.0"}

\* goal_pos_tol=0.001, planning_time=0.1 (lines 27-28)
DefaultTolerance == "0.001"

DefaultTime == "0.1"

PlannerNames == {"RRTConnect", "RRTstar", "Foo"}

Tools == {"gripper", "suction", "hook"}

\* start_state arguments: a YuMiState, or something else
StartStates == {"YuMiState", "NotAState"}

\* pose arguments: RigidTransforms between named frames, or something else
RigidTransforms == [from_frame : {"tool", "camera"}, to_frame : {"world", "base", "tool"}]

NotAPose == [from_frame |-> "n/a", to_frame |-> "n/a"]

PoseArgs == RigidTransforms \cup {NotAPose}

Positions == {-1, 2}

\* what compute_cartesian_path reports: a negative value on an internal
\* error, else a fraction between 0 and 1
Fractions == (-1) .. FracDen

FracOne == FracDen

JointNames == 1 .. NumJoints

JointOrders == {f \in [JointNames -> JointNames] : \A i, j \in JointNames : f[i] = f[j] => i = j}

SeqsUpTo(S, n) == UNION {[1 .. k -> S] : k \in 0 .. n}

\* every joint trajectory the service can return
Plans == [joint_names : JointOrders, points : SeqsUpTo([JointNames -> Positions], MaxPoints)]

CanonicalNames == [i \in JointNames |-> i]

RestPoint == [i \in JointNames |-> 2]

\* the two shapes of response that decide control flow: empty, non-empty
PlainPlans == {[joint_names |-> CanonicalNames, points |-> <<>>], [joint_names |-> CanonicalNames, points |-> <<RestPoint>>]}

NoPlan == [joint_names |-> <<>>, points |-> <<>>]

(* --------------------------- value helpers ----------------------------- *)

Unset == "unset"

\* an instance __dict__ with no attribute: no planner object exists
NoInstance == [n \in {} |-> Unset]

Constructed == DOMAIN self # {}

\* instance __dict__ with one attribute stored
Store(obj, name, value) == [n \in DOMAIN obj \cup {name} |-> IF n = name THEN value ELSE obj[n]]

Pending == [kind |-> "pending", traj |-> <<>>]

ReturnNone == [kind |-> "None", traj |-> <<>>]

Raised == [kind |-> "raised", traj |-> <<>>]

Returned == [kind |-> "returned", traj |-> <<>>]

\* YuMiTrajectory(joint_traj)
YuMiTrajectory(joint_traj) == [kind |-> "YuMiTrajectory", traj |-> joint_traj]

\* the record of the step just taken: the operation, its caller and
\* argument, the exception it raised, the service and scene methods it
\* invoked, and for planning steps the response and what was returned
Ev(op, c, arg, error, calls, nreq, fraction, plan, result) == [op |-> op, caller |-> c, arg |-> arg, error |-> error, calls |-> calls, nreq |-> nreq, fraction |-> fraction, plan |-> plan, result |-> result]

\* the step of a configuration operation; arg.value is the value passed
ConfigEv(op, value, error, calls) == Ev(op, MainCaller, [value |-> value], error, calls, 0, 0, NoPlan, IF error = "none" THEN Returned ELSE Raised)

Idle(c) == pc[c] = "idle"

AllIdle == \A c \in Callers : Idle(c)

IdleLocals == [tool |-> Unset, count |-> 0, nreq |-> 0, overlapped |-> FALSE]

(* ------------------- the planner object's attributes ------------------- *)

AttributeError == "AttributeError"

Field(obj, f) == IF f \in DOMAIN obj THEN obj[f] ELSE AttributeError

\* the property getters (lines 132-146); `planner` is defined twice and
\* both definitions return self._planner
PropertyGet(obj, name) == CASE name = "goal_position_tolerance" -> Field(obj, "_goal_pos_tol") [] name = "planning_time" -> Field(obj, "_planning_time") [] name = "planner" -> Field(obj, "_planner")

\* reading obj.<name>: a classic instance looks in its __dict__ first, a
\* new-style instance gives the property precedence
GetAttr(obj, name) == IF ~NewStyleClass /\ name \in DOMAIN obj THEN obj[name] ELSE PropertyGet(obj, name)

\* a MoveGroupCommander just created (line 46)
NewGroup == [tol |-> Unset, time |-> Unset, planner_id |-> Unset, start |-> Unset, target |-> Unset]

\* _update_planning_params (lines 120-123)
UpdatePlanningParams(obj, s) == [s EXCEPT !.tol = obj["_goal_pos_tol"], !.time = obj["_planning_time"]]

PlannerError == "ValueError: Planner not supported"

\* set_planner (lines 125-130): the new object and group, the exception
\* raised and the service methods invoked
SetPlannerOn(obj, s, planner) == IF planner \notin DOMAIN MOVEIT_PLANNER_IDS THEN [obj |-> obj, svc |-> s, error |-> PlannerError, calls |-> {}] ELSE [obj |-> Store(obj, "_planner_id", MOVEIT_PLANNER_IDS[planner]), svc |-> [s EXCEPT !.planner_id = MOVEIT_PLANNER_IDS[planner]], error |-> "none", calls |-> {"set_planner_id"}]

\* the property setters (lines 148-160)
PropertySet(obj, s, name, value) == CASE name = "goal_position_tolerance" -> [obj |-> Store(obj, "_goal_pos_tol", value), svc |-> UpdatePlanningParams(Store(obj, "_goal_pos_tol", value), s), error |-> "none", calls |-> {"set_goal_position_tolerance", "set_planning_time"}] [] name = "planning_time" -> [obj |-> Store(obj, "_planning_time", value), svc |-> UpdatePlanningParams(Store(obj, "_planning_time", value), s), error |-> "none", calls |-> {"set_goal_position_tolerance", "set_planning_time"}] [] name = "planner" -> SetPlannerOn(obj, s, value)

\* the assignment obj.<name> = value: on a classic instance it is stored in
\* the instance __dict__ and no setter runs
SetAttr(obj, s, name, value) == IF NewStyleClass THEN PropertySet(obj, s, name, value) ELSE [obj |-> Store(obj, name, value), svc |-> s, error |-> "none", calls |-> {}]

(* ------------------------------- Init ---------------------------------- *)

Init == /\ self = NoInstance /\ svc = NewGroup /\ scene = {} /\ pc = [c \in Callers |-> "idle"] /\ loc = [c \in Callers |-> IdleLocals] /\ event = ConfigEv("start", Unset, "none", {}) /\ chosen = [goal_position_tolerance |-> Unset, planning_time |-> Unset, planner |-> Unset]

(* ------------------------ configuration operations --------------------- *)

\* the calls __init__ makes before set_planner (lines 37-39)
InitCalls == {"MoveGroupCommander", "set_pose_reference_frame", "remove_world_object", "add_box", "set_goal_position_tolerance", "set_planning_time"}

\* YuMiMotionPlanner(planner=..., goal_pos_tol=..., planning_time=...)
\* (lines 26-40); when set_planner raises, no instance is returned
Construct(planner, tol, time) ==
    /\ ~Constructed /\ AllIdle
    /\ LET obj0 == Store(Store(NoInstance, "_goal_pos_tol", tol), "_planning_time", time)
           r == SetPlannerOn(obj0, UpdatePlanningParams(obj0, NewGroup), planner)
       IN /\ scene' = SceneObjects
          /\ svc' = r.svc
          /\ self' = IF r.error = "none" THEN r.obj ELSE NoInstance
          /\ chosen' = IF r.error = "none" THEN [goal_position_tolerance |-> tol, planning_time |-> time, planner |-> planner] ELSE chosen
          /\ event' = ConfigEv("__init__", planner, r.error, InitCalls \cup r.calls)
    /\ UNCHANGED <<pc, loc>>

\* planner_obj.set_planner(planner)
SetPlanner(planner) ==
    /\ Constructed /\ AllIdle
    /\ LET r == SetPlannerOn(self, svc, planner)
       IN /\ self' = r.obj /\ svc' = r.svc
          /\ chosen' = IF r.error = "none" THEN [chosen EXCEPT !.planner = planner] ELSE chosen
          /\ event' = ConfigEv("set_planner", planner, r.error, r.calls)
    /\ UNCHANGED <<scene, pc, loc>>

\* planner_obj.<name> = value, for the three properties
Assign(name, value) ==
    /\ Constructed /\ AllIdle
    /\ LET r == SetAttr(self, svc, name, value)
       IN /\ self' = r.obj /\ svc' = r.svc
          /\ chosen' = IF r.error = "none" THEN [chosen EXCEPT ![name] = value] ELSE chosen
          /\ event' = ConfigEv(name, value, r.error, r.calls)
    /\ UNCHANGED <<scene, pc, loc>>

AssignGoalPositionTolerance == \E tol \in Tolerances : Assign("goal_position_tolerance", tol)

AssignPlanningTime == \E t \in Times : Assign("planning_time", t)

AssignPlanner == \E p \in PlannerNames : Assign("planner", p)

(* ------------------------- trajectory conversion ----------------------- *)

Min(a, b) == IF a <= b THEN a ELSE b

\* zip(joint_names, t.positions): pairs, as long as the shorter argument
Zip(names, positions) == [i \in 1 .. Min(Len(names), Len(positions)) |-> <<names[i], positions[i]>>]

RECURSIVE InsertByName(_, _)
\* x placed in the name-sorted list after every pair whose name is <= its own
InsertByName(x, sorted) == IF sorted = <<>> THEN <<x>> ELSE IF x[1] < Head(sorted)[1] THEN <<x>> \o sorted ELSE <<Head(sorted)>> \o InsertByName(x, Tail(sorted))

RECURSIVE SortedPrefix(_, _)
SortedPrefix(pairs, n) == IF n = 0 THEN <<>> ELSE InsertByName(pairs[n], SortedPrefix(pairs, n - 1))

\* joints_and_names.sort(key = lambda x: x[0]): a stable sort by name
SortUnsorted(pairs) == pairs

SortByName(pairs) == SortedPrefix(pairs, Len(pairs))

\* np.rad2deg on a position counted in units of pi/12 radian
Rad2Deg(x) == (x * 180) \div 12

\* YuMiState([np.rad2deg(x[1]) for x in joints_and_names])
YuMiState(joints_and_names) == [k \in 1 .. Len(joints_and_names) |-> Rad2Deg(joints_and_names[k][2])]

\* the conversion loop (lines 226-231 and 298-305)
JointTraj(plan) == [i \in 1 .. Len(plan.points) |-> YuMiState(SortByName(Zip(plan.joint_names, plan.points[i])))]

(* --------------------------- argument checks --------------------------- *)

StateError == "ValueError: Start state must be specified"

PoseError == "ValueError: Start and goal poses must be specified as RigidTransformations"

FrameError == "ValueError: Start and goal poses must be from frame 'tool' to frame {'world', 'base'}"

FramesInvalidNoGoalTo(start_pose, goal_pose) == start_pose.from_frame # "tool" \/ goal_pose.from_frame # "tool" \/ (start_pose.to_frame # "world" /\ start_pose.to_frame # "base")

\* the frame test of lines 195 and 264
FramesInvalid(start_pose, goal_pose) == start_pose.from_frame # "tool" \/ goal_pose.from_frame # "tool" \/ (start_pose.to_frame # "world" /\ start_pose.to_frame # "base") \/ (goal_pose.to_frame # "world" /\ goal_pose.to_frame # "base")

\* the checks that open both planning methods (lines 187-196, 255-265)
ValidateArgs(start_state, start_pose, goal_pose) == IF start_state # "YuMiState" THEN StateError ELSE IF start_pose \notin RigidTransforms \/ goal_pose \notin RigidTransforms THEN PoseError ELSE IF FramesInvalid(start_pose, goal_pose) THEN FrameError ELSE "none"

\* what a planning call was given: whether the argument types are right,
\* whether both poses go from 'tool' to 'world' or 'base', and the tool
CallArg(start_state, start_pose, goal_pose, tool) == [typed |-> start_state = "YuMiState" /\ start_pose \in RigidTransforms /\ goal_pose \in RigidTransforms, framesOk |-> \A p \in {start_pose, goal_pose} : p.from_frame = "tool" /\ p.to_frame \in {"world", "base"}, tool |-> tool]

(* ---------------------------- planning calls --------------------------- *)

KeepStartState(s, c) == s

\* self._planning_group.set_start_state(start_state_msg) (lines 204, 276)
SetStartState(s, c) == [s EXCEPT !.start = c]

\* self._planning_group.set_pose_target(goal_pose_hand.pose_msg) (line 286)
SetPoseTargetOn(s, c) == [s EXCEPT !.target = c]

Busy(c) == \E d \in Callers \ {c} : ~Idle(d)

\* locals of the call c starts; every call in flight now overlaps it
Enter(c, tool) == [d \in Callers |-> IF d = c THEN [IdleLocals EXCEPT !.tool = tool, !.overlapped = Busy(c)] ELSE IF Idle(d) THEN loc[d] ELSE [loc[d] EXCEPT !.overlapped = TRUE]]

\* locals of call c when it returns
Leave(c) == [loc EXCEPT ![c] = [IdleLocals EXCEPT !.overlapped = loc[c].overlapped]]

\* plan_linear_path up to set_start_state (lines 187-211)
BeginLinear(c, start_state, start_pose, goal_pose) ==
    /\ Constructed /\ Idle(c)
    /\ LET err == ValidateArgs(start_state, start_pose, goal_pose)
           arg == CallArg(start_state, start_pose, goal_pose, "gripper")
       IN IF err # "none"
          THEN /\ event' = Ev("plan_linear_path", c, arg, err, {}, 0, 0, NoPlan, Raised)
               /\ UNCHANGED <<self, svc, scene, pc, loc, chosen>>
          ELSE /\ svc' = SetStartState(svc, c)
               /\ pc' = [pc EXCEPT ![c] = "cartesian"]
               /\ loc' = Enter(c, "gripper")
               /\ event' = Ev("plan_linear_path", c, arg, "none", {"set_start_state"}, 0, 0, NoPlan, Pending)
               /\ UNCHANGED <<self, scene, chosen>>

PartialPathAboveZero(fraction) == fraction > 0 /\ fraction < FracOne

\* `fraction >= 0.0 and fraction < 1.0` (line 218)
PartialPath(fraction) == fraction >= 0 /\ fraction < FracOne

\* `fraction < 0.0` (line 221)
PlanningError(fraction) == fraction < 0

\* what plan_linear_path returns for a response (lines 218-233)
LinearResult(plan, fraction) == IF PartialPath(fraction) THEN ReturnNone ELSE IF PlanningError(fraction) THEN ReturnNone ELSE YuMiTrajectory(JointTraj(plan))

\* compute_cartesian_path and the rest of plan_linear_path (lines 216-233)
ComputeCartesianPath(c, plans) ==
    /\ pc[c] = "cartesian"
    /\ \E plan \in plans, fraction \in Fractions : event' = Ev("compute_cartesian_path", c, [tool |-> loc[c].tool], "none", {"compute_cartesian_path"}, 1, fraction, plan, LinearResult(plan, fraction))
    /\ pc' = [pc EXCEPT ![c] = "idle"]
    /\ loc' = Leave(c)
    /\ UNCHANGED <<self, svc, scene, chosen>>

\* plan_shortest_path up to the choice of goal_pose_hand (lines 255-283);
\* with a tool that is neither 'gripper' nor 'suction' goal_pose_hand is
\* unbound and line 286 raises UnboundLocalError
BeginShortest(c, start_state, start_pose, goal_pose, timeout, tool) ==
    /\ Constructed /\ Idle(c)
    /\ LET err == ValidateArgs(start_state, start_pose, goal_pose)
           arg == CallArg(start_state, start_pose, goal_pose, tool)
           r == SetAttr(self, svc, "planning_time", timeout)
       IN IF err # "none"
          THEN /\ event' = Ev("plan_shortest_path", c, arg, err, {}, 0, 0, NoPlan, Raised)
               /\ UNCHANGED <<self, svc, scene, pc, loc, chosen>>
          ELSE /\ self' = r.obj
               /\ svc' = SetStartState(r.svc, c)
               /\ chosen' = [chosen EXCEPT !.planning_time = timeout]
               /\ IF tool \in {"gripper", "suction"}
                  THEN /\ pc' = [pc EXCEPT ![c] = "target"]
                       /\ loc' = Enter(c, tool)
                       /\ event' = Ev("plan_shortest_path", c, arg, "none", r.calls \cup {"set_start_state"}, 0, 0, NoPlan, Pending)
                  ELSE /\ event' = Ev("plan_shortest_path", c, arg, "UnboundLocalError", r.calls \cup {"set_start_state"}, 0, 0, NoPlan, Raised)
                       /\ loc' = [Enter(c, tool) EXCEPT ![c].tool = Unset]
                       /\ UNCHANGED pc
               /\ UNCHANGED scene

\* set_pose_target (line 286)
SetPoseTarget(c) ==
    /\ pc[c] = "target"
    /\ svc' = SetPoseTargetOn(svc, c)
    /\ pc' = [pc EXCEPT ![c] = "plan"]
    /\ event' = Ev("set_pose_target", c, [tool |-> loc[c].tool], "none", {"set_pose_target"}, 0, 0, NoPlan, Pending)
    /\ UNCHANGED <<self, scene, loc, chosen>>

Empty(plan) == Len(plan.points) = 0

LoopCondInclusive(count, plan) == count <= MaxRetries /\ Empty(plan)

\* `while count < 5 and len(plan.joint_trajectory.points) == 0` (line 289)
LoopCond(count, plan) == count < MaxRetries /\ Empty(plan)

\* what plan_shortest_path returns once the loop is left (lines 293-308)
ShortestResult(plan) == IF Empty(plan) THEN ReturnNone ELSE YuMiTrajectory(JointTraj(plan))

\* after a plan() answered: loop again, or return
AfterPlan(c, plan, count, nreq) ==
    /\ event' = Ev("plan", c, [tool |-> loc[c].tool], "none", {"plan"}, nreq, 0, plan, IF LoopCond(count, plan) THEN Pending ELSE ShortestResult(plan))
    /\ IF LoopCond(count, plan)
       THEN /\ pc' = [pc EXCEPT ![c] = "retry"]
            /\ loc' = [loc EXCEPT ![c].count = count, ![c].nreq = nreq]
       ELSE /\ pc' = [pc EXCEPT ![c] = "idle"]
            /\ loc' = Leave(c)
    /\ UNCHANGED <<self, svc, scene, chosen>>

\* the first plan() and `count = 0` (lines 287-289)
PlanFirst(c, plans) ==
    /\ pc[c] = "plan"
    /\ \E plan \in plans : AfterPlan(c, plan, 0, 1)

\* one round of the loop: plan() and `count += 1` (lines 290-291)
PlanRetry(c, plans) ==
    /\ pc[c] = "retry"
    /\ \E plan \in plans : AfterPlan(c, plan, loc[c].count + 1, loc[c].nreq + 1)

(* --------------------------- specifications ---------------------------- *)

\* the arguments both planning methods check
CallArgs == [start_state : StartStates, start_pose : PoseArgs, goal_pose : PoseArgs]

ValidCallArgs == {a \in CallArgs : ValidateArgs(a.start_state, a.start_pose, a.goal_pose) = "none"}

InvalidCallArgs == CallArgs \ ValidCallArgs

CallLinear(c) == \E a \in CallArgs : BeginLinear(c, a.start_state, a.start_pose, a.goal_pose)

\* a call that fails the argument checks raises before timeout and tool
\* are read: one value of each stands for all of them there
CallShortest(c) ==
    \/ \E a \in ValidCallArgs, timeout \in Times, tool \in Tools : BeginShortest(c, a.start_state, a.start_pose, a.goal_pose, timeout, tool)
    \/ \E a \in InvalidCallArgs : BeginShortest(c, a.start_state, a.start_pose, a.goal_pose, DefaultTime, "gripper")

\* calls whose arguments pass the checks
ValidCallLinear(c) == \E a \in ValidCallArgs : BeginLinear(c, a.start_state, a.start_pose, a.goal_pose)

ValidCallShortest(c) == \E a \in ValidCallArgs, timeout \in Times, tool \in Tools : BeginShortest(c, a.start_state, a.start_pose, a.goal_pose, timeout, tool)

\* construction with the default tolerance and planning time (lines 27-28)
NewPlanner == \E planner \in PlannerNames : Construct(planner, DefaultTolerance, DefaultTime)

CallSetPlanner == \E planner \in PlannerNames : SetPlanner(planner)

\* one caller: construction, configuration and planning calls, one at a
\* time; the service answers with an empty or a one-point trajectory
Next == \/ NewPlanner
        \/ CallSetPlanner
        \/ AssignGoalPositionTolerance
        \/ AssignPlanningTime
        \/ AssignPlanner
        \/ CallLinear(MainCaller)
        \/ ComputeCartesianPath(MainCaller, PlainPlans)
        \/ CallShortest(MainCaller)
        \/ SetPoseTarget(MainCaller)
        \/ PlanFirst(MainCaller, PlainPlans)
        \/ PlanRetry(MainCaller, PlainPlans)

Spec == Init /\ [][Next]_vars

\* a planner built with the default arguments (lines 26-40)
DefaultPlanner == Store(Store(Store(NoInstance, "_goal_pos_tol", DefaultTolerance), "_planning_time", DefaultTime), "_planner_id", MOVEIT_PLANNER_IDS["RRTConnect"])

InitDefault == /\ self = DefaultPlanner /\ svc = [NewGroup EXCEPT !.tol = DefaultTolerance, !.time = DefaultTime, !.planner_id = MOVEIT_PLANNER_IDS["RRTConnect"]] /\ scene = SceneObjects /\ pc = [c \in Callers |-> "idle"] /\ loc = [c \in Callers |-> IdleLocals] /\ event = ConfigEv("__init__", "RRTConnect", "none", InitCalls \cup {"set_planner_id"}) /\ chosen = [goal_position_tolerance |-> DefaultTolerance, planning_time |-> DefaultTime, planner |-> "RRTConnect"]

\* one caller of a default planner, its arguments passing the checks; the
\* service answers with any joint trajectory, in any joint order
NextData == \/ ValidCallLinear(MainCaller)
            \/ ComputeCartesianPath(MainCaller, Plans)
            \/ ValidCallShortest(MainCaller)
            \/ SetPoseTarget(MainCaller)
            \/ PlanFirst(MainCaller, Plans)
            \/ PlanRetry(MainCaller, Plans)

SpecData == InitDefault /\ [][NextData]_vars

\* two callers of one default planner, their calls interleaved at the
\* service calls
NextConc == \E c \in Callers : \/ ValidCallLinear(c)
                               \/ ComputeCartesianPath(c, PlainPlans)
                               \/ ValidCallShortest(c)
                               \/ SetPoseTarget(c)
                               \/ PlanFirst(c, PlainPlans)
                               \/ PlanRetry(c, PlainPlans)

SpecConc == InitDefault /\ [][NextConc]_vars

(* ------------------------------- claims -------------------------------- *)

Submits == {"compute_cartesian_path", "plan"}

PlanningCalls == {"plan_linear_path", "plan_shortest_path"}

\* C1 as stated: a plan_shortest_path call sends at most 5 plan() requests,
\* the first included, and returns None when every answer was empty.
C1_AtMostFiveRequests == event.op = "plan" => event.nreq <= 5 /\ (Empty(event.plan) /\ event.result # Pending => event.result = ReturnNone)

\* C1 amended: a plan_shortest_path call sends at most 6 plan() requests
\* (the first and up to 5 repeats); when every answer is empty the call
\* returns None, and it does so on the answer to the 6th request.
C1_AtMostSixRequests == event.op = "plan" => /\ event.nreq <= 6
                                             /\ (Empty(event.plan) /\ event.result # Pending => event.result = ReturnNone /\ event.nreq = 6)
                                             /\ (Empty(event.plan) /\ event.nreq = 6 => event.result = ReturnNone)

\* a call gave up: None after six empty answers
C1_GaveUpAfterSix == event.op = "plan" /\ event.nreq = 6 /\ Empty(event.plan) /\ event.result = ReturnNone

C3_NoEmptyTrajectory == event.result.kind = "YuMiTrajectory" => Len(event.result.traj) >= 1

\* C4: constructing the planner, set_planner or the planner assignment
\* with a planner outside the supported set raises the unsupported-planner
\* error before any call to the planning group or the scene, and leaves
\* the selected planner as it was.
C4_UnsupportedPlannerFailsFirst == [][(event'.op \in {"__init__", "set_planner", "planner"} /\ event'.arg.value \notin DOMAIN MOVEIT_PLANNER_IDS) => (event'.error = PlannerError /\ event'.calls = {} /\ svc' = svc /\ scene' = scene /\ Field(self', "_planner_id") = Field(self, "_planner_id"))]_vars

\* C5: a planning call given a pose that is not from 'tool' to 'world' or
\* 'base' raises (the frame error, when the argument types are right)
\* without a service call and with the planner object, the planning group,
\* the scene and every call in flight left as they were.
C5_BadFramesRejectedFirst == [][(event'.op \in PlanningCalls /\ ~event'.arg.framesOk) => (event'.result = Raised /\ event'.error \in {StateError, PoseError, FrameError} /\ (event'.arg.typed => event'.error = FrameError) /\ event'.calls = {} /\ self' = self /\ svc' = svc /\ scene' = scene /\ pc' = pc /\ loc' = loc)]_vars

\* a well-typed plan_shortest_path call was rejected for its frames after
\* an earlier call had set the group's start state
C5_FrameErrorRaised == event.op = "plan_shortest_path" /\ event.arg.typed /\ ~event.arg.framesOk /\ event.error = FrameError /\ svc.start = MainCaller

\* C6: whenever a planning request is sent, the planning group's goal
\* tolerance, planning time and planner id are the planner object's
\* current ones.
C6_RequestsSeeCurrentConfig == event.op \in Submits => /\ svc.tol = GetAttr(self, "goal_position_tolerance")
                                                        /\ svc.time = GetAttr(self, "planning_time")
                                                        /\ svc.planner_id = Field(self, "_planner_id")

\* the place of joint j of a response when its joint names are sorted
Rank(plan, j) == Cardinality({m \in 1 .. Len(plan.joint_names) : plan.joint_names[m] < plan.joint_names[j]}) + 1

\* C7: a returned trajectory has one waypoint per point of the service's
\* joint trajectory, in the same order, and in each waypoint the k-th angle
\* is the position of the joint whose name is k-th in sorted order, in
\* degrees (d degrees = p units of pi/12 iff 12 d = 180 p).
C7_ConvertedInOrder == event.result.kind = "YuMiTrajectory" => /\ Len(event.result.traj) = Len(event.plan.points)
                                                                /\ \A i \in 1 .. Len(event.plan.points) : /\ Len(event.result.traj[i]) = NumJoints
                                                                                                          /\ \A j \in JointNames : event.result.traj[i][Rank(event.plan, j)] * 12 = event.plan.points[i][j] * 180

\* a trajectory of two different waypoints was converted from a response
\* whose joint names were out of order and whose positions differ
C7_UnsortedResponseConverted == /\ event.result.kind = "YuMiTrajectory" /\ Len(event.result.traj) = 2
                                /\ event.plan.joint_names[1] > event.plan.joint_names[2]
                                /\ event.plan.points[1][1] # event.plan.points[1][2]
                                /\ event.plan.points[1] # event.plan.points[2]

\* C8: once the planner is constructed its three accessors can be read,
\* and each returns the value most recently set for it.
C8_AccessorsReturnLastSet == Constructed => /\ GetAttr(self, "goal_position_tolerance") = chosen.goal_position_tolerance
                                            /\ GetAttr(self, "planning_time") = chosen.planning_time
                                            /\ GetAttr(self, "planner") = chosen.planner

\* C9: a request sent by a call that no other call overlapped finds the
\* group's start state (and, for plan(), its pose target) as that call
\* set them.
C9_OwnSessionWhenAlone == (event.op \in Submits /\ ~loc[event.caller].overlapped) => /\ svc.start = event.caller
                                                                                      /\ (event.op = "plan" => svc.target = event.caller)

\* with two calls interleaved, a request was sent while the start state
\* or the pose target was the one the other call had set
C9_ForeignSessionWhenInterleaved == /\ event.op \in Submits /\ loc[event.caller].overlapped
                                    /\ \/ svc.start \in Callers \ {event.caller}
                                       \/ (event.op = "plan" /\ svc.target \in Callers \ {event.caller})

\* C10: plan_shortest_path with a tool that is neither 'gripper' nor
\* 'suction', and arguments that are otherwise valid, fails without a
\* planning request and with the planning time and the group's start state
\* as they were.
C10_BadToolRejectedFirst == [][(event'.op = "plan_shortest_path" /\ event'.arg.typed /\ event'.arg.framesOk /\ event'.arg.tool \notin {"gripper", "suction"}) => (event'.result = Raised /\ event'.calls \cap Submits = {} /\ GetAttr(self', "planning_time") = GetAttr(self, "planning_time") /\ svc'.start = svc.start)]_vars

====
